---- MODULE Spec2Model ----
(***************************************************************************)
(* A model of main.py: the listing page is parsed for PDF links, every     *)
(* link is downloaded once into PDFs/, the PDFs found on disk are          *)
(* validated by a thread pool (invalid ones are deleted) and the valid     *)
(* ones whose name holds an upper-case letter are listed.                  *)
(*                                                                         *)
(* A string is a sequence of one-character strings, so that lower(),       *)
(* unquote(), basename() and endswith() are computed as Python computes    *)
(* them.                                                                   *)
(***************************************************************************)
EXTENDS Integers, Sequences, FiniteSets, TLC

(***************************************************************************)
(* Bounds of the model.                                                    *)
(***************************************************************************)
\* the largest number of elements of the listing page's markup
MaxElems == 2
\* the largest number of files in PDFs/ before the run
MaxPre == 2

(***************************************************************************)
(* Strings.                                                                *)
(***************************************************************************)
UpperLetters ==
    <<"A","B","C","D","E","F","G","H","I","J","K","L","M",
      "N","O","P","Q","R","S","T","U","V","W","X","Y","Z">>

LowerLetters ==
    <<"a","b","c","d","e","f","g","h","i","j","k","l","m",
      "n","o","p","q","r","s","t","u","v","w","x","y","z">>

Digits == {"0","1","2","3","4","5","6","7","8","9"}

Range(s) == {s[i] : i \in 1..Len(s)}

\* str.isupper() of one character
IsUpperChar(c) == \E i \in 1..26 : UpperLetters[i] = c

IsLetter(c) == \E i \in 1..26 : UpperLetters[i] = c \/ LowerLetters[i] = c

\* str.lower() of one character
LowerChar(c) ==
    IF IsUpperChar(c)
    THEN LowerLetters[CHOOSE i \in 1..26 : UpperLetters[i] = c]
    ELSE c

\* str.lower()
Lower(s) == [i \in 1..Len(s) |-> LowerChar(s[i])]

\* str.endswith(suffix)
EndsWith(s, suffix) ==
    /\ Len(s) >= Len(suffix)
    /\ SubSeq(s, Len(s) - Len(suffix) + 1, Len(s)) = suffix

\* str.find(c): the first index of c in s, 0 when there is none
Find(s, c) ==
    IF \E i \in 1..Len(s) : s[i] = c
    THEN CHOOSE i \in 1..Len(s) : s[i] = c /\ \A j \in 1..(i-1) : s[j] # c
    ELSE 0

\* str.rfind(c): the last index of c in s, 0 when there is none
RFind(s, c) ==
    IF \E i \in 1..Len(s) : s[i] = c
    THEN CHOOSE i \in 1..Len(s) : s[i] = c /\ \A j \in (i+1)..Len(s) : s[j] # c
    ELSE 0

\* s[i:], from the 1-based index i on
From(s, i) == SubSeq(s, i, Len(s))

\* s[:i], up to and without the 1-based index i
Upto(s, i) == SubSeq(s, 1, i - 1)

\* str.replace(a, b) for single characters
Replace(s, a, b) == [i \in 1..Len(s) |-> IF s[i] = a THEN b ELSE s[i]]

DotPdf == <<".","p","d","f">>

(***************************************************************************)
(* urllib.parse.urlparse(url).path                                         *)
(***************************************************************************)
SchemeChars == Digits \cup {"+", "-", "."}

\* the index of the ":" that ends the URL's scheme, 0 when it has no scheme
SchemeEnd(url) ==
    LET i == Find(url, ":")
    IN  IF /\ i > 1
           /\ IsLetter(url[1])
           /\ \A j \in 1..(i-1) : IsLetter(url[j]) \/ url[j] \in SchemeChars
        THEN i
        ELSE 0

UrlScheme(url) == Lower(Upto(url, SchemeEnd(url)))

\* the first index of one of the characters of cs in s, Len(s)+1 when none
FirstOf(s, cs) ==
    IF \E i \in 1..Len(s) : s[i] \in cs
    THEN CHOOSE i \in 1..Len(s) : s[i] \in cs /\ \A j \in 1..(i-1) : s[j] \notin cs
    ELSE Len(s) + 1

\* the schemes of urllib.parse.uses_params that the model's URLs use
UsesParams == { <<>>, <<"h","t","t","p">>, <<"h","t","t","p","s">> }

\* urllib.parse._splitparams(url)[0]
SplitParams(url) ==
    LET slash == RFind(url, "/")
        semi  == IF slash > 0
                 THEN LET t == Find(From(url, slash), ";")
                      IN  IF t = 0 THEN 0 ELSE slash + t - 1
                 ELSE Find(url, ";")
    IN  IF semi = 0 THEN url ELSE Upto(url, semi)

UrlPath(url) ==
    LET noScheme == From(url, SchemeEnd(url) + 1)
        noNetloc == IF Len(noScheme) >= 2 /\ noScheme[1] = "/" /\ noScheme[2] = "/"
                    THEN LET rest == From(noScheme, 3)
                         IN  From(rest, FirstOf(rest, {"/", "?", "#"}))
                    ELSE noScheme
        noFrag   == Upto(noNetloc, FirstOf(noNetloc, {"#"}))
        noQuery  == Upto(noFrag, FirstOf(noFrag, {"?"}))
    IN  IF UrlScheme(url) \in UsesParams /\ Find(noQuery, ";") > 0
        THEN SplitParams(noQuery)
        ELSE noQuery

\* os.path.basename(p)
Basename(p) == From(p, RFind(p, "/") + 1)

(***************************************************************************)
(* urllib.parse.unquote(string)                                            *)
(***************************************************************************)
HexDigits == Digits \cup {"a","b","c","d","e","f","A","B","C","D","E","F"}

\* the character of a percent-encoded byte, for the bytes the model's URLs hold
HexChar(h, l) ==
    CASE h = "2" /\ l = "0"          -> " "
      [] h = "2" /\ l = "5"          -> "%"
      [] h = "2" /\ l \in {"F", "f"} -> "/"
      [] h = "2" /\ l \in {"D", "d"} -> "-"
      [] h = "4" /\ l = "1"          -> "A"
      [] h = "4" /\ l = "2"          -> "B"
      [] h = "6" /\ l = "1"          -> "a"
      [] OTHER                       -> "?"

RECURSIVE Unquote(_)
Unquote(s) ==
    IF s = <<>>
    THEN <<>>
    ELSE IF s[1] = "%" /\ Len(s) >= 3 /\ s[2] \in HexDigits /\ s[3] \in HexDigits
         THEN <<HexChar(s[2], s[3])>> \o Unquote(From(s, 4))
         ELSE <<s[1]>> \o Unquote(Tail(s))

(***************************************************************************)
(* url_to_filename                                                         *)
(***************************************************************************)
\* the deriver without the final case folding
url_to_filename_no_lower(url) ==
    Replace(Unquote(Basename(UrlPath(url))), " ", "-")

url_to_filename(url) ==
    Lower(Replace(Unquote(Basename(UrlPath(url))), " ", "-"))

(***************************************************************************)
(* The listing page: a sequence of elements, each with its tag and its     *)
(* href attribute (has_href is FALSE for an element without one).          *)
(***************************************************************************)
HttpsX == <<"h","t","t","p","s",":","/","/","x","/">>

\* https://x/A%20B.PDF
UrlUpperEncoded == HttpsX \o <<"A","%","2","0","B",".","P","D","F">>

\* https://x/a-b.pdf
UrlLowerDashed == HttpsX \o <<"a","-","b",".","p","d","f">>

\* /docs/Report A.PDF
UrlRelative ==
    <<"/","d","o","c","s","/","R","e","p","o","r","t"," ","A",".","P","D","F">>

\* https://x/?f=c.pdf
UrlQueryOnly == HttpsX \o <<"?","f","=","c",".","p","d","f">>

\* https://x/i.html
UrlHtml == HttpsX \o <<"i",".","h","t","m","l">>

Anchor(url) == [tag |-> "a", has_href |-> TRUE, href |-> url]

\* <a name="top">
AnchorNoHref == [tag |-> "a", has_href |-> FALSE, href |-> <<>>]

\* <link href="https://x/a-b.pdf">
LinkTag == [tag |-> "link", has_href |-> TRUE, href |-> UrlLowerDashed]

\* the anchors to documents a listing page may hold
PdfAnchors ==
    { Anchor(UrlUpperEncoded), Anchor(UrlLowerDashed), Anchor(UrlQueryOnly) }

\* what every listing page starts and ends with
PageHead == <<LinkTag>>

PageFoot == <<AnchorNoHref, Anchor(UrlHtml)>>

\* the listing pages: up to MaxElems document anchors between head and foot
Markups ==
    UNION { { PageHead \o body \o PageFoot : body \in [1..n -> PdfAnchors] } :
            n \in 0..MaxElems }

(***************************************************************************)
(* parse_html                                                              *)
(***************************************************************************)
\* soup.find_all(name="a", href=True)
FindAllAnchors(html_content) ==
    SelectSeq(html_content, LAMBDA e : e.tag = "a" /\ e.has_href)

parse_html(html_content) ==
    LET found == SelectSeq(FindAllAnchors(html_content),
                           LAMBDA e : EndsWith(Lower(e.href), DotPdf))
    IN  [i \in 1..Len(found) |-> Lower(found[i].href)]

(***************************************************************************)
(* The file system under PDFs/: a function from the name of each regular   *)
(* file in the directory to its content and modification time. A content   *)
(* is one of four documents, told apart by what fitz makes of them.        *)
(***************************************************************************)
Contents == {"pdf1", "pdf2", "zero", "corrupt"}

\* fitz.open(file_path) raises a RuntimeError
OpenFails(content) == content = "corrupt"

\* doc.page_count
PageCount(content) ==
    CASE content = "pdf1" -> 1
      [] content = "pdf2" -> 2
      [] content = "zero" -> 0

\* Normalize.pdf
NameUpper == <<"N","o","r","m","a","l","i","z","e",".","p","d","f">>

\* normalize.pdf
NameLower == <<"n","o","r","m","a","l","i","z","e",".","p","d","f">>

\* a-b.pdf
NameAB == <<"a","-","b",".","p","d","f">>

\* notes.txt
NameTxt == <<"n","o","t","e","s",".","t","x","t">>

\* the names of the files a run may find in PDFs/
PreNames == {NameUpper, NameLower, NameTxt}

\* what a file found before the run may hold
PreContents(name) ==
    IF name = NameTxt THEN {"corrupt"} ELSE {"pdf1", "zero", "corrupt"}

\* the states of PDFs/ a run can start in: at most MaxPre files, all older than
\* anything the run writes
InitDisks ==
    UNION { { d \in [S -> [content : Contents, mtime : {0}]] :
                \A f \in S : d[f].content \in PreContents(f) } :
            S \in {T \in SUBSET PreNames : Cardinality(T) <= MaxPre} }

\* os.path.isfile(os.path.join(save_path, filename))
check_file_exists_never(d, filename) == FALSE

check_file_exists(d, filename) == filename \in DOMAIN d

\* open(full_path, "wb") raises an OSError: PDFs/ itself (the empty name), or a
\* path into a directory that does not exist
OpenForWriteFails(filename) == filename = <<>> \/ "/" \in Range(filename)

\* with open(full_path, "wb") as f: f.write(content)
WriteFile(d, filename, content, t) ==
    [f \in DOMAIN d \cup {filename} |->
        IF f = filename THEN [content |-> content, mtime |-> t] ELSE d[f]]

\* a removal that leaves the file in place
remove_system_file_noop(d, path) == d

\* a removal that takes every file of the same lower-cased name with it
remove_system_file_nocase(d, path) ==
    [f \in {g \in DOMAIN d : Lower(g) # Lower(path)} |-> d[f]]

\* os.remove(path)
remove_system_file(d, path) == [f \in DOMAIN d \ {path} |-> d[f]]

\* the content at a name, "absent" when there is no such file
ContentAt(d, filename) ==
    IF filename \in DOMAIN d THEN d[filename].content ELSE "absent"

(***************************************************************************)
(* requests.get(url) and response.raise_for_status()                       *)
(***************************************************************************)
\* requests sends only http and https URLs: any other raises MissingSchema or
\* InvalidSchema, both RequestExceptions, before anything is sent
Sendable(url) == UrlScheme(url) \in { <<"h","t","t","p">>, <<"h","t","t","p","s">> }

\* what a GET that was sent ends in: a final response (a 3xx is final when it
\* names no Location to follow), or a transport error
Responses ==
    { [kind |-> "response", status |-> 200, body |-> "pdf2"],
      [kind |-> "response", status |-> 200, body |-> "zero"],
      [kind |-> "response", status |-> 300, body |-> "corrupt"],
      [kind |-> "response", status |-> 404, body |-> "corrupt"],
      [kind |-> "error", status |-> 0, body |-> "corrupt"] }

\* requests.get raised before anything was sent
NotSent == [kind |-> "unsent", status |-> 0, body |-> "corrupt"]

\* no requests.get at all
NoRequest == [kind |-> "none", status |-> 0, body |-> "corrupt"]

\* requests.get was sent and never returned: no timeout is passed, so a server
\* that holds the connection open holds the caller
Stalled == [kind |-> "stalled", status |-> 0, body |-> "corrupt"]

GetOutcomes(url) == IF Sendable(url) THEN Responses ELSE {NotSent}

\* raise_for_status() raises an HTTPError for a 4xx or 5xx status
RaisesForStatus(status) == 400 <= status /\ status < 600

\* requests.get or raise_for_status raised a RequestException
RequestFailed(r) == r.kind # "response" \/ RaisesForStatus(r.status)

(***************************************************************************)
(* validate_pdf_file, check_upper_case_letter                              *)
(***************************************************************************)
\* the verdict of validate_pdf_file: fitz.open raises for a missing file too
validate_pdf_file(d, file_path) ==
    IF file_path \notin DOMAIN d \/ OpenFails(d[file_path].content)
    THEN [is_valid |-> FALSE, said |-> "open_error"]
    ELSE IF PageCount(d[file_path].content) = 0
         THEN [is_valid |-> FALSE, said |-> "no_pages"]
         ELSE [is_valid |-> TRUE, said |-> "valid"]

\* all() in the place of any()
check_upper_case_letter_all(content) ==
    \A i \in 1..Len(content) : IsUpperChar(content[i])

check_upper_case_letter(content) ==
    \E i \in 1..Len(content) : IsUpperChar(content[i])

\* ThreadPoolExecutor(max_workers=100)
max_workers == 100

(***************************************************************************)
(* State.                                                                  *)
(***************************************************************************)
VARIABLES
    pc,                 \* main's position
    page,               \* the markup the remote listing page renders to
    html_exists,        \* graham.chemtel.net.html exists
    html_content,       \* its content
    pdf_links,          \* the links parse_html returned
    next_link,          \* the index of the link the download loop is at
    root_exists,        \* the directory PDFs/ exists
    disk,               \* the regular files in PDFs/
    now,                \* the file system's clock
    dl_out,             \* what each call of download_pdf did, in call order
    response,           \* what the last call's requests.get ended in
    printed,            \* the lines printed, as (kind, argument) pairs
    pdf_file_paths,     \* the sorted inventory
    disk_at_discovery,  \* PDFs/ as the walk found it
    fut,                \* the future of each submitted process_file call
    collected,          \* the futures as_completed has yielded
    files_with_uppercase_names,
    first_run,          \* what the run before this one did and left (SpecTwoRuns)
    d_urls,             \* the deriver's two inputs (SpecDerive)
    d_names,            \* the filenames derived from them (SpecDerive)
    d_pc                \* the deriver's position (SpecDerive)

vars ==
    <<pc, page, html_exists, html_content, pdf_links, next_link, root_exists,
      disk, now, dl_out, response, printed, pdf_file_paths, disk_at_discovery, fut,
      collected, files_with_uppercase_names, first_run, d_urls, d_names, d_pc>>

mainVars ==
    <<pc, page, html_exists, html_content, pdf_links, next_link, root_exists,
      disk, now, dl_out, response, printed, pdf_file_paths, disk_at_discovery, fut,
      collected, files_with_uppercase_names, first_run>>

deriveVars == <<d_urls, d_names, d_pc>>

poolVars == <<pdf_file_paths, disk_at_discovery, fut, collected,
              files_with_uppercase_names>>

listingVars == <<page, html_exists, html_content>>

Line(kind, arg) == [kind |-> kind, arg |-> arg]

\* no run before this one
NoRun == [ran |-> FALSE, dl_out |-> <<>>, disk |-> <<>>]

\* a listing left behind by an earlier run
StaleMarkup == <<Anchor(UrlHtml)>>

MainInit ==
    /\ pc = "start"
    /\ page \in Markups
    /\ html_exists \in BOOLEAN
    /\ html_content = IF html_exists THEN StaleMarkup ELSE <<>>
    /\ pdf_links = <<>>
    /\ next_link = 1
    /\ disk \in InitDisks
    /\ root_exists \in (IF DOMAIN disk = {} THEN BOOLEAN ELSE {TRUE})
    /\ now = 1
    /\ dl_out = <<>>
    /\ response = NoRequest
    /\ printed = {}
    /\ pdf_file_paths = <<>>
    /\ disk_at_discovery = disk
    /\ fut = <<>>
    /\ collected = {}
    /\ files_with_uppercase_names = <<>>
    /\ first_run = NoRun

DeriveIdle ==
    /\ d_urls = <<>>
    /\ d_names = <<>>
    /\ d_pc = "idle"

Init == MainInit /\ DeriveIdle

(***************************************************************************)
(* main, lines 196-206: the stale listing is removed and the page is       *)
(* rendered and saved; a fault of the browser raises out of main.          *)
(***************************************************************************)
FetchListing ==
    /\ pc = "start"
    /\ \E rendered \in BOOLEAN :
          IF rendered
          THEN /\ html_exists' = TRUE
               \* the file was removed, so the append writes the page alone
               /\ html_content' = <<>> \o page
               /\ printed' = printed \cup {Line("html_saved", <<>>)}
               /\ pc' = "parse"
          ELSE /\ html_exists' = FALSE
               /\ html_content' = <<>>
               /\ printed' = printed
               /\ pc' = "fetch_failed"
    /\ UNCHANGED <<page, pdf_links, next_link, root_exists, disk, now, dl_out, response>>
    /\ UNCHANGED poolVars
    /\ UNCHANGED deriveVars
    /\ UNCHANGED first_run

(***************************************************************************)
(* main, lines 209-212                                                     *)
(***************************************************************************)
ParseListing ==
    /\ pc = "parse"
    /\ pdf_links' = IF html_exists THEN parse_html(html_content) ELSE <<>>
    /\ next_link' = 1
    /\ pc' = "download"
    /\ UNCHANGED <<root_exists, disk, now, dl_out, response, printed>>
    /\ UNCHANGED listingVars
    /\ UNCHANGED poolVars
    /\ UNCHANGED deriveVars
    /\ UNCHANGED first_run

(***************************************************************************)
(* main, lines 214-220, and download_pdf: one link. An exception that is   *)
(* no RequestException (the OSError of open) leaves download_pdf and main. *)
(***************************************************************************)
Event(url, filename, result, r, before, after) ==
    [url |-> url, filename |-> filename, result |-> result,
     sent |-> r.kind \in {"response", "error"},
     before |-> before, after |-> after]

DownloadPdf ==
    /\ pc = "download"
    /\ next_link <= Len(pdf_links)
    /\ LET url      == pdf_links[next_link]
           filename == url_to_filename(url)
           before   == ContentAt(disk, filename)
       IN  IF check_file_exists(disk, filename)
           THEN /\ response' = NoRequest
                /\ printed' = printed \cup {Line("exists_skip", filename)}
                /\ next_link' = next_link + 1
                /\ UNCHANGED <<pc, root_exists, disk, now>>
                /\ dl_out' = Append(dl_out,
                                Event(url, filename, "skipped", NoRequest,
                                      before, ContentAt(disk', filename)))
           ELSE \E r \in GetOutcomes(url) :
                  /\ response' = r
                  /\ IF RequestFailed(r)
                     THEN /\ printed' = printed \cup {Line("failed", url)}
                          /\ next_link' = next_link + 1
                          /\ UNCHANGED <<pc, root_exists, disk, now>>
                          /\ dl_out' = Append(dl_out,
                                          Event(url, filename, "failed", r,
                                                before, ContentAt(disk', filename)))
                     ELSE IF OpenForWriteFails(filename)
                     THEN /\ root_exists' = TRUE
                          /\ pc' = "aborted"
                          /\ UNCHANGED <<printed, next_link, disk, now>>
                          /\ dl_out' = Append(dl_out,
                                          Event(url, filename, "raised", r,
                                                before, ContentAt(disk', filename)))
                     ELSE /\ root_exists' = TRUE
                          /\ disk' = WriteFile(disk, filename, r.body, now)
                          /\ now' = now + 1
                          /\ printed' = printed \cup {Line("downloaded", filename)}
                          /\ next_link' = next_link + 1
                          /\ UNCHANGED pc
                          /\ dl_out' = Append(dl_out,
                                          Event(url, filename, "downloaded", r,
                                                before, ContentAt(disk', filename)))
    /\ UNCHANGED pdf_links
    /\ UNCHANGED listingVars
    /\ UNCHANGED poolVars
    /\ UNCHANGED deriveVars
    /\ UNCHANGED first_run

(***************************************************************************)
(* download_pdf, line 96, when the response never comes: requests.get has  *)
(* no timeout, the call is made by main's own loop (lines 214-220), and    *)
(* main waits in it for ever.                                              *)
(***************************************************************************)
DownloadPdfStalls ==
    /\ pc = "download"
    /\ next_link <= Len(pdf_links)
    /\ ~check_file_exists(disk, url_to_filename(pdf_links[next_link]))
    /\ Sendable(pdf_links[next_link])
    /\ response' = Stalled
    /\ pc' = "hung"
    /\ UNCHANGED <<pdf_links, next_link, root_exists, disk, now, dl_out, printed>>
    /\ UNCHANGED listingVars
    /\ UNCHANGED poolVars
    /\ UNCHANGED deriveVars
    /\ UNCHANGED first_run

(***************************************************************************)
(* walk_directory_and_extract_given_file_extension, and main's sort,       *)
(* lines 223-236. The walk's order is the directory's, which is any; the   *)
(* sort is stable, so files of one modification time come in any order.    *)
(***************************************************************************)
walk_directory_and_extract_given_file_extension(exists, d, extension) ==
    IF exists
    THEN {f \in DOMAIN d : EndsWith(Lower(f), Lower(extension))}
    ELSE {}

\* a sort that may repeat a file and lose another
SortedByMtime_repeating(d, matched) ==
    { s \in [1..Cardinality(matched) -> matched] :
        \A i, j \in DOMAIN s : i < j => d[s[i]].mtime >= d[s[j]].mtime }

\* a sort by rising modification time
SortedByMtime_ascending(d, matched) ==
    { s \in [1..Cardinality(matched) -> matched] :
        /\ \A i, j \in DOMAIN s : i # j => s[i] # s[j]
        /\ \A i, j \in DOMAIN s : i < j => d[s[i]].mtime <= d[s[j]].mtime }

\* the orders sort(key=getmtime, reverse=True) can leave the matched files in
SortedByMtime(d, matched) ==
    { s \in [1..Cardinality(matched) -> matched] :
        /\ \A i, j \in DOMAIN s : i # j => s[i] # s[j]
        /\ \A i, j \in DOMAIN s : i < j => d[s[i]].mtime >= d[s[j]].mtime }

Discover ==
    /\ pc = "download"
    /\ next_link > Len(pdf_links)
    /\ LET matched ==
             walk_directory_and_extract_given_file_extension(root_exists, disk, DotPdf)
       IN  IF matched = {}
           THEN /\ printed' = printed \cup {Line("no_pdf", <<>>)}
                /\ pdf_file_paths' = <<>>
                /\ pc' = "done"
           ELSE /\ pdf_file_paths' \in SortedByMtime(disk, matched)
                /\ printed' = printed
                /\ pc' = "submit"
    /\ disk_at_discovery' = disk
    /\ response' = NoRequest
    /\ UNCHANGED <<pdf_links, next_link, root_exists, disk, now, dl_out,
                   fut, collected, files_with_uppercase_names>>
    /\ UNCHANGED listingVars
    /\ UNCHANGED deriveVars
    /\ UNCHANGED first_run

(***************************************************************************)
(* main, lines 239-244: the next path is submitted to the pool.            *)
(***************************************************************************)
Queued == [state |-> "queued", is_valid |-> FALSE, result |-> "none", raised |-> FALSE]

Submit ==
    /\ pc = "submit"
    /\ fut' = Append(fut, Queued)
    /\ pc' = IF Len(fut') = Len(pdf_file_paths) THEN "collect" ELSE "submit"
    /\ UNCHANGED <<pdf_links, next_link, root_exists, disk, now, dl_out, response, printed,
                   pdf_file_paths, disk_at_discovery, collected,
                   files_with_uppercase_names>>
    /\ UNCHANGED listingVars
    /\ UNCHANGED deriveVars
    /\ UNCHANGED first_run

(***************************************************************************)
(* The pool: a worker takes the oldest queued call (the work queue is      *)
(* first in, first out), and runs process_file on its path.                *)
(***************************************************************************)
Running == {i \in DOMAIN fut : fut[i].state \in {"running", "validated"}}

Dequeue(i) ==
    /\ fut[i].state = "queued"
    /\ \A j \in 1..(i-1) : fut[j].state # "queued"
    /\ Cardinality(Running) < max_workers
    /\ fut' = [fut EXCEPT ![i].state = "running"]
    /\ UNCHANGED <<pc, pdf_links, next_link, root_exists, disk, now, dl_out, response,
                   printed,
                   pdf_file_paths, disk_at_discovery, collected,
                   files_with_uppercase_names>>
    /\ UNCHANGED listingVars
    /\ UNCHANGED deriveVars
    /\ UNCHANGED first_run

\* os.path.basename(path)
get_filename_and_extension(path) == Basename(path)

\* what process_file returns for a path judged valid or not
process_file_returns_none(file_path, is_valid) == "none"

process_file_result(file_path, is_valid) ==
    IF is_valid /\ check_upper_case_letter(get_filename_and_extension(file_path))
    THEN "path"
    ELSE "none"

\* process_file, lines 174-179 and 185-190: the file is opened and judged; a
\* valid one is done with, an invalid one is still to be removed
ValidateFile(i) ==
    /\ fut[i].state = "running"
    /\ LET file_path == pdf_file_paths[i]
           v         == validate_pdf_file(disk, file_path)
       IN  /\ printed' = printed \cup {Line(v.said, file_path)}
           /\ fut' = [fut EXCEPT ![i] =
                        [state    |-> IF v.is_valid THEN "finished" ELSE "validated",
                         is_valid |-> v.is_valid,
                         result   |-> process_file_result(file_path, v.is_valid),
                         raised   |-> FALSE]]
    /\ UNCHANGED <<pc, pdf_links, next_link, root_exists, disk, now, dl_out, response,
                   pdf_file_paths, disk_at_discovery, collected,
                   files_with_uppercase_names>>
    /\ UNCHANGED listingVars
    /\ UNCHANGED deriveVars
    /\ UNCHANGED first_run

\* process_file, lines 181-183: os.remove raises when the file is not there
RemoveInvalid(i) ==
    /\ fut[i].state = "validated"
    /\ LET file_path == pdf_file_paths[i]
       IN  IF file_path \in DOMAIN disk
           THEN /\ disk' = remove_system_file(disk, file_path)
                /\ fut' = [fut EXCEPT ![i].state = "finished"]
           ELSE /\ disk' = disk
                /\ fut' = [fut EXCEPT ![i].state = "finished", ![i].raised = TRUE]
    /\ UNCHANGED <<pc, pdf_links, next_link, root_exists, now, dl_out, response, printed,
                   pdf_file_paths, disk_at_discovery, collected,
                   files_with_uppercase_names>>
    /\ UNCHANGED listingVars
    /\ UNCHANGED deriveVars
    /\ UNCHANGED first_run

(***************************************************************************)
(* main, lines 247-257: as_completed yields a finished future, in any      *)
(* order; result() raises what the call raised.                            *)
(***************************************************************************)
Collect ==
    /\ pc = "collect"
    /\ \E i \in DOMAIN fut :
          /\ fut[i].state = "finished"
          /\ i \notin collected
          /\ collected' = collected \cup {i}
          /\ IF fut[i].raised
             THEN /\ pc' = "aborted"
                  /\ UNCHANGED <<printed, files_with_uppercase_names>>
             ELSE /\ IF fut[i].result = "path"
                     THEN /\ printed' = printed \cup
                                {Line("uppercase_found", pdf_file_paths[i])}
                          /\ files_with_uppercase_names' =
                                Append(files_with_uppercase_names, pdf_file_paths[i])
                     ELSE UNCHANGED <<printed, files_with_uppercase_names>>
                  /\ pc' = IF collected' = DOMAIN fut THEN "summary" ELSE "collect"
    /\ UNCHANGED <<pdf_links, next_link, root_exists, disk, now, dl_out, response,
                   pdf_file_paths, disk_at_discovery, fut>>
    /\ UNCHANGED listingVars
    /\ UNCHANGED deriveVars
    /\ UNCHANGED first_run

\* a summary after which main goes through the links again
Summary_again ==
    /\ pc = "summary"
    /\ printed' = printed \cup {Line("no_uppercase", <<>>)}
    /\ pc' = "download"
    /\ next_link' = 1
    /\ UNCHANGED <<pdf_links, root_exists, disk, now, dl_out, response>>
    /\ UNCHANGED poolVars
    /\ UNCHANGED listingVars
    /\ UNCHANGED deriveVars
    /\ UNCHANGED first_run

(***************************************************************************)
(* main, lines 259-272                                                     *)
(***************************************************************************)
Summary ==
    /\ pc = "summary"
    /\ printed' = printed \cup
          (IF Len(files_with_uppercase_names) = 0
           THEN {Line("no_uppercase", <<>>)}
           ELSE {Line("summary", files_with_uppercase_names[i]) :
                    i \in DOMAIN files_with_uppercase_names})
    /\ pc' = "done"
    /\ UNCHANGED <<pdf_links, next_link, root_exists, disk, now, dl_out, response>>
    /\ UNCHANGED poolVars
    /\ UNCHANGED listingVars
    /\ UNCHANGED deriveVars
    /\ UNCHANGED first_run

Next ==
    \/ FetchListing
    \/ ParseListing
    \/ DownloadPdf
    \/ DownloadPdfStalls
    \/ Discover
    \/ Submit
    \/ \E i \in DOMAIN fut : Dequeue(i)
    \/ \E i \in DOMAIN fut : ValidateFile(i)
    \/ \E i \in DOMAIN fut : RemoveInvalid(i)
    \/ Collect
    \/ Summary

Spec == Init /\ [][Next]_vars

(***************************************************************************)
(* The same runs, with main's thread and the pool's workers scheduled: a   *)
(* submission, a worker's taking of a call, a call of process_file and     *)
(* main's collecting of a result that can take place are not put off for   *)
(* ever (fitz.open and os.remove return).                                  *)
(***************************************************************************)
\* the listing pages with two document anchors that derive one filename
TwoLinkPages ==
    { PageHead \o <<a, b>> \o PageFoot :
        a \in {Anchor(UrlUpperEncoded), Anchor(UrlLowerDashed)},
        b \in {Anchor(UrlLowerDashed)} }

\* the runs over such a page that start with no stale listing and with PDFs/
\* as full as a run may find it
FairInit ==
    /\ Init
    /\ page \in TwoLinkPages
    /\ ~html_exists
    /\ Cardinality(DOMAIN disk) = MaxPre

FairSpec ==
    /\ FairInit
    /\ [][Next]_vars
    /\ WF_vars(Submit)
    /\ WF_vars(\E i \in DOMAIN fut : Dequeue(i))
    /\ WF_vars(\E i \in DOMAIN fut : ValidateFile(i))
    /\ WF_vars(\E i \in DOMAIN fut : RemoveInvalid(i))
    /\ WF_vars(Collect)
    /\ WF_vars(Summary)

(***************************************************************************)
(* Two runs of the program, one after the other, over the same listing:    *)
(* the second starts from the files the first has left.                    *)
(***************************************************************************)
TwoRunsInit ==
    /\ Init
    /\ page \in TwoLinkPages
    /\ ~html_exists
    /\ Cardinality(DOMAIN disk) <= 1
    /\ NameTxt \notin DOMAIN disk

\* main() is called again, lines 276-277, after a run that has ended
Restart ==
    /\ pc = "done"
    /\ ~first_run.ran
    /\ first_run' = [ran |-> TRUE, dl_out |-> dl_out, disk |-> disk]
    /\ pc' = "start"
    /\ pdf_links' = <<>>
    /\ next_link' = 1
    /\ dl_out' = <<>>
    /\ response' = NoRequest
    /\ printed' = {}
    /\ pdf_file_paths' = <<>>
    /\ disk_at_discovery' = disk
    /\ fut' = <<>>
    /\ collected' = {}
    /\ files_with_uppercase_names' = <<>>
    /\ UNCHANGED <<root_exists, disk, now>>
    /\ UNCHANGED listingVars
    /\ UNCHANGED deriveVars

TwoRunsNext == Next \/ Restart

SpecTwoRuns == TwoRunsInit /\ [][TwoRunsNext]_vars

(***************************************************************************)
(* The filename deriver on its own: url_to_filename applied to two URLs.   *)
(***************************************************************************)
\* https://x/a%2Fb.pdf
UrlEncodedSlash == HttpsX \o <<"a","%","2","F","b",".","p","d","f">>

\* https://x/d/c.pdf#top
UrlFragment == HttpsX \o <<"d","/","c",".","p","d","f","#","t","o","p">>

\* https://x/c.pdf?v=1
UrlQuery == HttpsX \o <<"c",".","p","d","f","?","v","=","1">>

\* HTTPS://X/Q.PDF
UrlShouting == <<"H","T","T","P","S",":","/","/","X","/","Q",".","P","D","F">>

\* https://x/a%2520b.pdf
UrlTwiceEncoded == HttpsX \o <<"a","%","2","5","2","0","b",".","p","d","f">>

\* https://x/A B.pdf
UrlSpace == HttpsX \o <<"A"," ","B",".","p","d","f">>

\* https://x/b.pdf;p
UrlParams == HttpsX \o <<"b",".","p","d","f",";","p">>

DeriveUrls ==
    { UrlUpperEncoded, UrlLowerDashed, UrlRelative, UrlQueryOnly, UrlHtml,
      UrlEncodedSlash, UrlFragment, UrlQuery, UrlShouting, UrlTwiceEncoded,
      UrlSpace, UrlParams }

MainIdle ==
    /\ pc = "off"
    /\ page = <<>>
    /\ html_exists = FALSE
    /\ html_content = <<>>
    /\ pdf_links = <<>>
    /\ next_link = 1
    /\ disk = <<>>
    /\ root_exists = FALSE
    /\ now = 1
    /\ dl_out = <<>>
    /\ response = NoRequest
    /\ printed = {}
    /\ pdf_file_paths = <<>>
    /\ disk_at_discovery = <<>>
    /\ fut = <<>>
    /\ collected = {}
    /\ files_with_uppercase_names = <<>>
    /\ first_run = NoRun

DeriveInit ==
    /\ MainIdle
    /\ d_urls \in DeriveUrls \X DeriveUrls
    /\ d_names = <<>>
    /\ d_pc = "start"

\* filename: str = url_to_filename(pdf_link), for one URL and then the other
DeriveFirst ==
    /\ d_pc = "start"
    /\ d_names' = <<url_to_filename(d_urls[1])>>
    /\ d_pc' = "first"
    /\ UNCHANGED d_urls
    /\ UNCHANGED mainVars

DeriveSecond ==
    /\ d_pc = "first"
    /\ d_names' = Append(d_names, url_to_filename(d_urls[2]))
    /\ d_pc' = "derived"
    /\ UNCHANGED d_urls
    /\ UNCHANGED mainVars

DeriveNext == DeriveFirst \/ DeriveSecond

SpecDerive == DeriveInit /\ [][DeriveNext]_vars

\* what Python's url_to_filename returns for each URL of DeriveUrls
DeriveTable ==
    d_pc = "derived" =>
       \A k \in 1..2 :
          /\ d_urls[k] = UrlUpperEncoded => d_names[k] = NameAB
          /\ d_urls[k] = UrlLowerDashed  => d_names[k] = NameAB
          /\ d_urls[k] = UrlRelative     =>
                d_names[k] = <<"r","e","p","o","r","t","-","a",".","p","d","f">>
          /\ d_urls[k] = UrlQueryOnly    => d_names[k] = <<>>
          /\ d_urls[k] = UrlHtml         => d_names[k] = <<"i",".","h","t","m","l">>
          /\ d_urls[k] = UrlEncodedSlash => d_names[k] = <<"a","/","b",".","p","d","f">>
          /\ d_urls[k] = UrlFragment     => d_names[k] = <<"c",".","p","d","f">>
          /\ d_urls[k] = UrlQuery        => d_names[k] = <<"c",".","p","d","f">>
          /\ d_urls[k] = UrlShouting     => d_names[k] = <<"q",".","p","d","f">>
          /\ d_urls[k] = UrlTwiceEncoded =>
                d_names[k] = <<"a","%","2","0","b",".","p","d","f">>
          /\ d_urls[k] = UrlSpace        => d_names[k] = NameAB
          /\ d_urls[k] = UrlParams       => d_names[k] = <<"b",".","p","d","f">>

(***************************************************************************)
(* Properties.                                                             *)
(***************************************************************************)
\* the calls of download_pdf that sent a GET, among calls k and k+1
SentIn(k) == Cardinality({m \in {k, k + 1} : dl_out[m].sent})

\* two calls of download_pdf in a row for one URL
TwiceInARow(k) ==
    /\ k \in 1..(Len(dl_out) - 1)
    /\ dl_out[k].url = dl_out[k + 1].url

DownloadStep == Len(dl_out') = Len(dl_out) + 1

\* C2: a call of download_pdf creates one file or none and changes no file that
\* exists; a link whose filename an earlier link of another URL has already
\* put on disk is skipped.
C2_NoOverwrite ==
    /\ [][DownloadStep =>
            /\ \A f \in DOMAIN disk : f \in DOMAIN disk' /\ disk'[f] = disk[f]
            /\ Cardinality(DOMAIN disk' \ DOMAIN disk) <= 1]_vars
    /\ [](\A k, m \in DOMAIN dl_out :
            (/\ k < m
             /\ dl_out[k].filename = dl_out[m].filename
             /\ dl_out[k].after # "absent") =>
               /\ dl_out[m].result = "skipped"
               /\ dl_out[m].after = dl_out[k].after)

\* a link is skipped because a link of another URL wrote its file
C2_Witness ==
    \E k, m \in DOMAIN dl_out :
       /\ k < m
       /\ dl_out[k].url # dl_out[m].url
       /\ dl_out[k].filename = dl_out[m].filename
       /\ dl_out[k].result = "downloaded"
       /\ dl_out[m].result = "skipped"

\* the GET of the call ended in a status that is not 2xx, or in a transport error
GetFailed(r) ==
    \/ r.kind = "error"
    \/ r.kind = "response" /\ ~(200 <= r.status /\ r.status < 300)

\* C3 as stated: a call of download_pdf whose GET ends in a non-2xx status or in
\* a transport error leaves the files on disk as they were, with none at the
\* link's filename.
C3_AsStated ==
    [][(DownloadStep /\ GetFailed(response')) =>
          /\ disk' = disk
          /\ dl_out'[Len(dl_out')].after = "absent"]_vars

\* the inventory paths whose call of process_file has ended
Finished == {i \in DOMAIN fut : fut[i].state = "finished"}

\* C4: once process_file has ended for a file it judged invalid, the file is
\* not on disk, and a walk of PDFs/ does not find it.
C4_Destructive ==
    \A i \in Finished :
       ~fut[i].is_valid =>
          /\ pdf_file_paths[i] \notin DOMAIN disk
          /\ pdf_file_paths[i] \notin
                walk_directory_and_extract_given_file_extension(root_exists, disk, DotPdf)

\* one file was deleted for an open that failed, another for having no pages
C4_Witness ==
    \E i, j \in Finished :
       /\ ~fut[i].is_valid
       /\ ~fut[j].is_valid
       /\ Line("open_error", pdf_file_paths[i]) \in printed
       /\ Line("no_pages", pdf_file_paths[j]) \in printed
       /\ pdf_file_paths[i] \in DOMAIN disk_at_discovery
       /\ pdf_file_paths[j] \in DOMAIN disk_at_discovery

\* C5 as stated: no failure of one item ends the run; a run that is over has
\* passed every link to download_pdf and collected the result of every
\* inventory file.
C5_AsStated ==
    /\ pc # "aborted"
    /\ pc = "done" =>
          /\ Len(dl_out) = Len(pdf_links)
          /\ collected = DOMAIN pdf_file_paths

\* str has an upper-case character
HasUpperCase(name) == \E i \in 1..Len(name) : IsUpperChar(name[i])

\* the inventory files judged valid whose basename has an upper-case character
ValidUpper ==
    {i \in DOMAIN fut :
        /\ fut[i].state = "finished"
        /\ fut[i].is_valid
        /\ HasUpperCase(Basename(pdf_file_paths[i]))}

Colliding ==
    {i \in ValidUpper : Lower(pdf_file_paths[i]) \in DOMAIN disk_at_discovery}

\* the file at a path is as the walk found it
Intact(path) == path \in DOMAIN disk /\ disk[path] = disk_at_discovery[path]

\* the inventory file at a path was judged valid
JudgedValid(path) ==
    \E j \in DOMAIN fut :
       pdf_file_paths[j] = path /\ fut[j].state = "finished" /\ fut[j].is_valid

RECURSIVE Sequentially(_, _, _)
Sequentially(paths, d, verdicts) ==
    IF paths = <<>>
    THEN [disk |-> d, verdicts |-> verdicts]
    ELSE LET path == Head(paths)
             v    == validate_pdf_file(d, path)
         IN  Sequentially(Tail(paths),
                          IF v.is_valid \/ path \notin DOMAIN d
                          THEN d
                          ELSE remove_system_file(d, path),
                          verdicts \cup {<<path, v.is_valid>>})

\* the (path, verdict) pairs of the calls that have judged their file
Verdicts ==
    {<<pdf_file_paths[i], fut[i].is_valid>> :
        i \in {j \in DOMAIN fut : fut[j].state \in {"validated", "finished"}}}

\* C8: every verdict the pool reaches is the verdict of the sequential run over
\* the inventory, and when every call has ended the verdicts and the files on
\* disk are those of the sequential run.
C8_AsSequential ==
    LET seq == Sequentially(pdf_file_paths, disk_at_discovery, {})
    IN  /\ Verdicts \subseteq seq.verdicts
        /\ (Len(fut) = Len(pdf_file_paths) /\ Finished = DOMAIN fut /\ fut # <<>>) =>
              /\ Verdicts = seq.verdicts
              /\ disk = seq.disk

\* three files have been validated by the pool, to both verdicts
C8_Witness ==
    /\ Len(fut) = 3
    /\ Finished = DOMAIN fut
    /\ \E i, j \in DOMAIN fut : fut[i].is_valid /\ ~fut[j].is_valid

\* the hrefs, as the markup has them, of the anchors whose href ends in .pdf
\* whatever its case, in document order
ExpectedLinks(markup) ==
    LET found == SelectSeq(markup,
                    LAMBDA e : e.tag = "a" /\ e.has_href
                               /\ EndsWith(Lower(e.href), DotPdf))
    IN  [i \in 1..Len(found) |-> found[i].href]

\* C9 as stated: parse_html returns the hrefs of the anchors that end in .pdf
\* whatever their case, each as the markup has it, in document order and with
\* duplicates kept.
C9_AsStated ==
    pc \in {"download", "submit", "collect", "summary", "done", "aborted"} =>
       pdf_links = ExpectedLinks(html_content)

\* C10 as stated: the deriver returns one filename for one URL, and different
\* filenames for https://x/A%20B.PDF and https://x/a-b.pdf.
C10_AsStated ==
    d_pc = "derived" =>
       /\ d_urls[1] = d_urls[2] => d_names[1] = d_names[2]
       /\ d_urls = <<UrlUpperEncoded, UrlLowerDashed>> => d_names[1] # d_names[2]

\* C10, amended: the deriver returns one filename for one URL, and the same
\* filename, a-b.pdf, for https://x/A%20B.PDF and https://x/a-b.pdf.
C10_SameName ==
    d_pc = "derived" =>
       /\ d_urls[1] = d_urls[2] => d_names[1] = d_names[2]
       /\ d_urls = <<UrlUpperEncoded, UrlLowerDashed>> =>
             /\ d_names[1] = d_names[2]
             /\ d_names[1] = NameAB

\* the two URLs of the claim have been derived
C10_Witness ==
    /\ d_pc = "derived"
    /\ d_urls = <<UrlUpperEncoded, UrlLowerDashed>>

\* the run has stopped: main has returned, or an exception has left it, or it
\* waits for a response that never comes
Stopped == pc \in {"done", "aborted", "fetch_failed", "hung"}

\* with no directory PDFs/ when the download loop is over, the walk yields
\* nothing, nothing is passed to the pool and main returns after "No PDF files
\* found."
C11_MissingRoot ==
    /\ ~root_exists =>
          /\ walk_directory_and_extract_given_file_extension(root_exists, disk, DotPdf) = {}
          /\ pdf_file_paths = <<>>
          /\ fut = <<>>
          /\ pc \notin {"submit", "collect", "summary", "aborted"}
    /\ (~root_exists /\ pc = "done") => Line("no_pdf", <<>>) \in printed

\* a run has ended with no directory PDFs/
C11_MissingRootReached == pc = "done" /\ ~root_exists /\ Len(dl_out) > 0

Count(result) == Cardinality({k \in DOMAIN dl_out : dl_out[k].result = result})

\* the report of the claim: the counts of what happened, and the paths listed
Report ==
    [downloaded |-> Count("downloaded"),
     skipped    |-> Count("skipped"),
     failed     |-> Count("failed"),
     valid      |-> Cardinality({i \in Finished : fut[i].is_valid}),
     invalid    |-> Cardinality({i \in Finished : ~fut[i].is_valid}),
     renamed    |-> files_with_uppercase_names]

PrintedKinds ==
    {"html_saved", "exists_skip", "failed", "downloaded", "no_pdf", "open_error",
     "no_pages", "valid", "uppercase_found", "no_uppercase", "summary"}

\* the line download_pdf prints for a call that returned
OutcomeLine(e) ==
    CASE e.result = "downloaded" -> Line("downloaded", e.filename)
      [] e.result = "skipped"    -> Line("exists_skip", e.filename)
      [] e.result = "failed"     -> Line("failed", e.url)

AllSubmitted == pc \in {"collect", "summary", "done"}

\* C13: every path of the inventory (every file the walk matched, once) is
\* submitted to the pool exactly once; as_completed yields a call only when it
\* has ended and yields no call twice; and, the workers taking their steps, a
\* run that starts submitting ends with the result of every submitted call
\* collected, whatever the order the calls end in.
C13_Exhaustive ==
    /\ [](/\ Len(fut) <= Len(pdf_file_paths)
          /\ \A i, j \in DOMAIN pdf_file_paths :
                i # j => pdf_file_paths[i] # pdf_file_paths[j]
          /\ pc \in {"submit", "collect", "summary"} =>
                Range(pdf_file_paths) =
                   walk_directory_and_extract_given_file_extension(
                      TRUE, disk_at_discovery, DotPdf)
          /\ AllSubmitted => Len(fut) = Len(pdf_file_paths)
          /\ collected \subseteq Finished
          /\ pc \in {"summary", "done"} => collected = DOMAIN fut)
    /\ [][/\ Len(fut') # Len(fut) =>
                /\ Len(fut') = Len(fut) + 1
                /\ pc = "submit"
          /\ collected' # collected =>
                \E i \in Finished :
                   i \notin collected /\ collected' = collected \cup {i}]_vars
    /\ (pc = "submit") ~>
          (pc = "done" /\ Len(fut) = Len(pdf_file_paths) /\ collected = DOMAIN fut)

\* a run has ended with the results of three calls collected
C13_Witness ==
    /\ pc = "done"
    /\ Len(pdf_file_paths) = 3
    /\ collected = {1, 2, 3}

\* the items that hang: the download whose response never comes
StalledItems == IF pc = "hung" THEN {next_link} ELSE {}

\* every link but the stalled ones has had its call of download_pdf, and every
\* PDF in PDFs/ has been through process_file
OthersProcessed ==
    /\ Len(dl_out) >= Len(pdf_links) - Cardinality(StalledItems)
    /\ \A f \in walk_directory_and_extract_given_file_extension(root_exists, disk, DotPdf) :
          \E i \in Finished : pdf_file_paths[i] = f

\* C14 as stated: a hang in one item (a stalled HTTP response during a
\* download) holds one worker slot only; with fewer stalled items than the
\* pool has workers, every other item is still processed to completion.
C14_AsStated ==
    (StalledItems # {} /\ Cardinality(StalledItems) < max_workers) ~> OthersProcessed

\* the modification time the sort read for the inventory's i-th path
MtimeOf(i) == disk_at_discovery[pdf_file_paths[i]].mtime

\* a worker has taken the i-th call from the pool's queue
Taken(i) == fut[i].state # "queued"

\* the i-th call has opened its file: its validation has started
Started(i) == fut[i].state \in {"validated", "finished"}

\* the inventory is in descending order of modification time, and calls are
\* submitted in the inventory's order
SubmittedDescending ==
    /\ \A i, j \in DOMAIN pdf_file_paths : i < j => MtimeOf(i) >= MtimeOf(j)
    /\ Len(fut) <= Len(pdf_file_paths)

\* C15 as stated: the inventory is submitted in descending order of
\* modification time, and no older file starts validation before a newer one
\* has started.
C15_AsStated ==
    /\ SubmittedDescending
    /\ \A i, j \in DOMAIN fut :
          (MtimeOf(i) > MtimeOf(j) /\ Started(j)) => Started(i)

\* C15, amended: the inventory is submitted in descending order of
\* modification time, and the workers take the calls from the queue in the
\* order of submission, so that no call for an older file is taken before the
\* call for a newer one; the order in which the calls taken then open their
\* files is not fixed.
C15_TakenInOrder ==
    /\ SubmittedDescending
    /\ \A i, j \in DOMAIN fut : (i < j /\ Taken(j)) => Taken(i)
    /\ \A i, j \in DOMAIN fut : (MtimeOf(i) > MtimeOf(j) /\ Taken(j)) => Taken(i)

\* an older file has been validated while the call for a newer one, taken by a
\* worker, has not opened its file yet
C15_Witness ==
    \E i, j \in DOMAIN fut :
       /\ i < j
       /\ MtimeOf(i) > MtimeOf(j)
       /\ Started(j)
       /\ fut[i].state = "running"

\* a GET has been sent, or tried, by the step
GetIssued(r) == r.kind \in {"response", "error", "stalled", "unsent"}

\* C16: every call of download_pdf, and every GET, takes place before the walk
\* and before anything is submitted to the pool: once a validation may have
\* begun no GET is issued, and a file that validation has deleted stays
\* deleted for the rest of the run.
C16_DownloadsFirst ==
    /\ [][(dl_out' # dl_out \/ (response' # response /\ GetIssued(response'))) =>
             /\ pc = "download"
             /\ pdf_file_paths = <<>>
             /\ fut = <<>>
             /\ collected = {}]_vars
    /\ [](fut # <<>> =>
             /\ ~GetIssued(response)
             /\ next_link > Len(pdf_links)
             /\ Len(dl_out) = Len(pdf_links))
    /\ [][\A f \in DOMAIN disk_at_discovery :
             (fut # <<>> /\ f \notin DOMAIN disk) => f \notin DOMAIN disk']_vars

\* a run has ended, and a file it downloaded has been deleted by validation
C16_Witness ==
    /\ pc = "done"
    /\ \E k \in DOMAIN dl_out :
          /\ dl_out[k].result = "downloaded"
          /\ dl_out[k].sent
          /\ dl_out[k].filename \in DOMAIN disk_at_discovery
          /\ dl_out[k].filename \notin DOMAIN disk

\* the paths main has collected
CollectedPaths == Range(files_with_uppercase_names)

\* the inventory paths judged valid whose basename has an upper-case character
ValidUpperPaths == {pdf_file_paths[i] : i \in ValidUpper}

\* C17: the paths main collects are at every moment among the inventory paths
\* judged valid whose basename has an upper-case character, none of them is
\* deleted or invalid, and when the fan-out is over they are exactly those.
C17_CollectedExactly ==
    /\ CollectedPaths \subseteq ValidUpperPaths
    /\ \A q \in CollectedPaths :
          /\ q \in Range(pdf_file_paths)
          /\ q \in DOMAIN disk
          /\ validate_pdf_file(disk, q).is_valid
          /\ HasUpperCase(Basename(q))
    /\ (pc \in {"summary", "done"} /\ pdf_file_paths # <<>>) =>
          /\ Finished = DOMAIN pdf_file_paths
          /\ CollectedPaths = ValidUpperPaths
          /\ CollectedPaths =
                {q \in Range(pdf_file_paths) :
                    /\ validate_pdf_file(disk_at_discovery, q).is_valid
                    /\ HasUpperCase(Basename(q))}

\* the fan-out is over: Normalize.pdf is collected, a valid file with a
\* lower-case name is not, and an invalid file is deleted
C17_Witness ==
    /\ pc \in {"summary", "done"}
    /\ CollectedPaths = {NameUpper}
    /\ \E i, j \in Finished :
          /\ fut[i].is_valid
          /\ ~HasUpperCase(Basename(pdf_file_paths[i]))
          /\ ~fut[j].is_valid
          /\ pdf_file_paths[j] \notin DOMAIN disk

\* the step is one of the call of process_file on the inventory's i-th path
StepOf(i) == i \in DOMAIN fut' /\ fut'[i] # fut[i]

\* C18: a step of process_file on a path creates no file, leaves every other
\* file as it was, and either leaves its own file as it was or deletes it, and
\* deletes it only after judging it invalid; during the fan-out nothing else
\* changes a file, so a file judged valid is as the walk found it.
C18_OwnPathOnly ==
    /\ [][\A i \in DOMAIN fut :
             StepOf(i) =>
                /\ DOMAIN disk' \subseteq DOMAIN disk
                /\ \A f \in DOMAIN disk \ {pdf_file_paths[i]} :
                      f \in DOMAIN disk' /\ disk'[f] = disk[f]
                /\ pdf_file_paths[i] \in DOMAIN disk' => disk' = disk
                /\ disk' # disk =>
                      /\ fut[i].state = "validated"
                      /\ ~fut[i].is_valid
                      /\ ~validate_pdf_file(disk, pdf_file_paths[i]).is_valid]_vars
    /\ [][(fut # <<>> /\ disk' # disk) => \E i \in DOMAIN fut : StepOf(i)]_vars
    /\ [](\A i \in Finished : fut[i].is_valid => Intact(pdf_file_paths[i]))

\* one of Normalize.pdf and normalize.pdf has been deleted as invalid, and the
\* other, judged valid, is as it was
C18_Witness ==
    \E i, j \in Finished :
       /\ i # j
       /\ Lower(pdf_file_paths[i]) = Lower(pdf_file_paths[j])
       /\ ~fut[i].is_valid
       /\ pdf_file_paths[i] \notin DOMAIN disk
       /\ fut[j].is_valid
       /\ Intact(pdf_file_paths[j])

\* C19: when a run that submitted its inventory is over, every call has
\* ended, every inventory file still on disk was judged valid in the run (and
\* is valid), and no inventory file that was judged invalid, or was invalid
\* at the walk, is on disk.
C19_PostCondition ==
    pc = "done" =>
       /\ Finished = DOMAIN pdf_file_paths
       /\ \A q \in Range(pdf_file_paths) :
             q \in DOMAIN disk =>
                /\ JudgedValid(q)
                /\ validate_pdf_file(disk, q).is_valid
       /\ \A i \in DOMAIN pdf_file_paths :
             (\/ ~fut[i].is_valid
              \/ ~validate_pdf_file(disk_at_discovery, pdf_file_paths[i]).is_valid) =>
                pdf_file_paths[i] \notin DOMAIN disk

\* a run over three files has ended: two are left, one is gone
C19_Witness ==
    /\ pc = "done"
    /\ Len(pdf_file_paths) = 3
    /\ Cardinality(Range(pdf_file_paths) \cap DOMAIN disk) = 2

\* the run is the second of the two
SecondRun == first_run.ran

\* the links both runs have passed to download_pdf: the listing is the same,
\* so the k-th call of the second run is for the link of the first run's k-th
BothRuns == DOMAIN first_run.dl_out \cap DOMAIN dl_out

\* the first run downloaded the k-th link's file and its validation deleted it
DeletedInFirstRun(k) ==
    /\ first_run.dl_out[k].result = "downloaded"
    /\ first_run.dl_out[k].filename \notin DOMAIN first_run.disk

\* the k-th link's file was there when the first run ended
SurvivedFirstRun(k) == first_run.dl_out[k].filename \in DOMAIN first_run.disk

\* in the second run a GET is sent for exactly the links whose file is absent
\* when the link is reached
GetIffAbsent ==
    \A k \in DOMAIN dl_out :
       /\ dl_out[k].sent = (dl_out[k].before = "absent")
       /\ (dl_out[k].result = "skipped") = (dl_out[k].before # "absent")

\* a link whose file was there at the end of the first run is skipped
SurvivorsSkipped ==
    \A k \in BothRuns :
       SurvivedFirstRun(k) =>
          /\ dl_out[k].url = first_run.dl_out[k].url
          /\ dl_out[k].result = "skipped"
          /\ ~dl_out[k].sent
          /\ dl_out[k].after = ContentAt(first_run.disk, dl_out[k].filename)

====
